---- MODULE Spec2Model ----
(***************************************************************************)
(* powerstrip: subprocess plugin runtime.                                  *)
(*   - Client (process supervisor): Start / Protocol / Kill, with the      *)
(*     stderr forwarder, the reaper and the stdout line reader goroutines  *)
(*   - Serve / RPCServer: handshake line, Control.Quit                     *)
(*   - RPCClient: Close, Dispense                                          *)
(*   - MuxBroker: NextId, Dial, Accept, Run, timeoutWait                   *)
(* Strings are sequences of tokens ("tcp", "|", ":1234", " ", ...).        *)
(***************************************************************************)
EXTENDS Integers, Sequences, FiniteSets, TLC

Nil == "nil"
\* no address, no line
NilAddr == [network |-> Nil, str |-> <<>>]
NoLine == <<Nil>>

(* ------------------------------ bounds -------------------------------- *)

\* API calls the host threads make in one run, all threads together
MaxOps == 3

\* NextId calls on one broker beyond which no further direct call is made
MaxIds == 3

(* --------------------------- error values ----------------------------- *)

ErrTimeout == "timeout while waiting for plugin to start"
ErrExited == "plugin exited before we could connect"
ErrUnrecognized == "Unrecognized remote plugin message"
ErrUnknownType == "Unknown address type"
ErrResolve == "missing port in address"
ErrStdoutSet == "exec: Stdout already set"
ErrSpawn == "exec: start failed"
ErrDial == "dial: connection refused"
ErrShutdown == "connection is shut down"
ErrUnexpectedEOF == "unexpected EOF"
ErrServer == "rpc: server error"

(* ------------------------- strings (tokens) --------------------------- *)

Space == {" ", "\n", "\t"}

\* strings.TrimSpace
RECURSIVE TrimLeft(_)
TrimLeft(s) ==
    IF s # <<>> /\ Head(s) \in Space THEN TrimLeft(Tail(s)) ELSE s

RECURSIVE TrimRight(_)
TrimRight(s) ==
    IF s # <<>> /\ s[Len(s)] \in Space
    THEN TrimRight(SubSeq(s, 1, Len(s) - 1))
    ELSE s

TrimSpace(s) == TrimRight(TrimLeft(s))

\* position of the first sep in s, 0 when there is none
RECURSIVE Index(_, _, _)
Index(s, sep, i) ==
    IF i > Len(s) THEN 0
    ELSE IF s[i] = sep THEN i
    ELSE Index(s, sep, i + 1)

\* strings.SplitN(s, sep, n) for n >= 1: at most n parts, the last one unsplit
RECURSIVE SplitN(_, _, _)
SplitN(s, sep, n) ==
    LET i == Index(s, sep, 1) IN
    IF n <= 1 \/ i = 0 THEN <<s>>
    ELSE <<SubSeq(s, 1, i - 1)>> \o SplitN(SubSeq(s, i + 1, Len(s)), sep, n - 1)

Digits == <<"1", "2", "3", "4", "5", "6", "7", "8", "9">>

\* %d of a one-digit positive number
Itoa(n) == Digits[n]

(* --------------------------- server.go -------------------------------- *)

CoreProtocolVersion == 1

\* Serve: fmt.Printf("%d|1|%s|%s\n", CoreProtocolVersion, network, address)
\* (the scanner on the other side strips the newline)
ServeHandshake(network, address) ==
    <<Itoa(CoreProtocolVersion), "|", "1", "|", network, "|">> \o address

(* ----------------------------- net ------------------------------------ *)

Ports == {":1234"}
Hosts == {<<>>, <<"localhost">>}

\* net.ResolveTCPAddr("tcp", s): host:port, the host empty or a known name
ResolveTCPAddr(s) ==
    IF Len(s) >= 1 /\ s[Len(s)] \in Ports /\ SubSeq(s, 1, Len(s) - 1) \in Hosts
    THEN [addr |-> [network |-> "tcp", str |-> s], err |-> Nil]
    ELSE [addr |-> NilAddr, err |-> ErrResolve]

\* net.ResolveUnixAddr("unix", s): any path
ResolveUnixAddr(s) == [addr |-> [network |-> "unix", str |-> s], err |-> Nil]

(* ----------------- Client.Start: the handshake line ------------------- *)

\* the switch on the family taking every family for a known one
ParseHandshakeAnyFamily(rawLine) ==
    LET line == TrimSpace(rawLine)
        parts == SplitN(line, "|", 2)
    IN  IF Len(parts) < 2
        THEN [addr |-> NilAddr, err |-> Nil, ret |-> ErrUnrecognized]
        ELSE [addr |-> [network |-> parts[1][1], str |-> parts[2]],
              err |-> Nil, ret |-> Nil]

\* Start, case line := <-linesCh.  err is Start's local variable err, the one
\* the deferred guard reads; ret is the error Start returns.
ParseHandshake(rawLine) ==
    LET line == TrimSpace(rawLine)
        parts == SplitN(line, "|", 2)
    IN  IF Len(parts) < 2
        THEN [addr |-> NilAddr, err |-> Nil, ret |-> ErrUnrecognized]
        ELSE LET r == IF parts[1] = <<"tcp">> THEN ResolveTCPAddr(parts[2])
                      ELSE IF parts[1] = <<"unix">> THEN ResolveUnixAddr(parts[2])
                      ELSE [addr |-> NilAddr, err |-> ErrUnknownType]
             IN  [addr |-> r.addr, err |-> r.err, ret |-> r.err]

\* Start's deferred guard: if err != nil || r != nil { cmd.Process.Kill() }
GuardKills(err) == err # Nil

(* ------------------------- RPCClient.Close ---------------------------- *)

\* the order Close closes its resources in
Resources == <<"control", "stdout", "stderr", "broker">>

\* the four if err := x.Close(); err != nil { return err } in a row, from the
\* i-th on; e[r] is what r.Close() returns.  called: the resources Close() was
\* called on, failed: the error that ended the row
RECURSIVE CloseRow(_, _)
CloseRow(e, i) ==
    IF i > Len(Resources) THEN [called |-> <<>>, failed |-> Nil]
    ELSE IF e[Resources[i]] # Nil
         THEN [called |-> <<Resources[i]>>, failed |-> e[Resources[i]]]
         ELSE LET r == CloseRow(e, i + 1)
              IN  [called |-> <<Resources[i]>> \o r.called, failed |-> r.failed]

\* Close giving up when the Quit call failed: nothing is closed
CloseStopsAtQuit(returnErr, e) ==
    LET r == CloseRow(e, 1)
    IN  IF returnErr # Nil THEN [called |-> <<>>, err |-> returnErr]
        ELSE [called |-> r.called, err |-> r.failed]

\* Close returning the Quit call's error before any Close() error
CloseQuitErrorFirst(returnErr, e) ==
    LET r == CloseRow(e, 1)
    IN  [called |-> r.called,
         err |-> IF returnErr # Nil THEN returnErr ELSE r.failed]

\* RPCClient.Close after the Quit call returned returnErr
RPCClientClose(returnErr, e) ==
    LET r == CloseRow(e, 1)
    IN  [called |-> r.called,
         err |-> IF r.failed # Nil THEN r.failed ELSE returnErr]

(* ======================== process supervisor ========================== *)

Callers == {"h1", "h2"}
Pid == "pid"

VARIABLES
    plugin,       \* what the child executable does (fixed in a run)
    child,        \* "none" | "running" | "dead"
    printed,      \* stdout lines the child has written
    outPipe,      \* stdout lines written and not yet scanned
    errWritten,   \* stderr lines the child has written
    errPipe,      \* stderr lines written and not yet forwarded, in order
    sink,         \* lines written to config.Stderr, in order
    cmdPiped,     \* cmd.Stdout is set (StdoutPipe was called)
    exited, l, addr, proc, proto, doneCtx, clientWg, stderrWg, procKilled,
    fwd,          \* logStderr goroutine
    reaper,       \* the goroutine around cmd.Wait()
    reader,       \* the stdout scanner goroutine
    readerLine,   \* the line it is sending on linesCh
    linesClosed,  \* close(linesCh) has run
    pc, op, loc,  \* per host thread: position, API call, locals
    hist,         \* per host thread: the API calls that returned
    startRet,     \* per host thread: what its last Start call returned
    nops,         \* API calls begun
    osKills,      \* Process.Kill() calls issued
    quit,         \* per host thread: its Control.Quit call on the wire
    srvDone,      \* RPCServer.DoneCh (open or nil) and the close(DoneCh) calls made
    ctlClosing,   \* rpc.Client.closing of the control client
    closedRes,    \* resources of the RPCClient that Close() was called on
    ping          \* the host's Ping call on the runtime Protocol() returned

childVars == <<child, printed, outPipe, errWritten, errPipe>>
taskVars == <<fwd, reaper, reader, readerLine, linesClosed, sink>>
clientVars == <<cmdPiped, exited, l, addr, proc, proto, doneCtx, clientWg,
                stderrWg, procKilled>>
callVars == <<pc, op, loc, hist, startRet, nops>>
rpcVars == <<quit, srvDone, ctlClosing, closedRes>>
supVars == <<plugin, childVars, taskVars, clientVars, callVars, rpcVars, osKills,
             ping>>

\* RPCClient.Close on its own: what the Quit call and the four Close() calls
\* return, and what Close did and returned
VARIABLES closeIn, closeOut

closeVars == <<closeIn, closeOut>>

\* one mux session with Dispense calls: the client runtime, the control RPC,
\* the server's broker and the wire
VARIABLES
    cpc,          \* per Dispense call: position of RPCClient.Dispense
    cname,        \* the name it asks for
    cid,          \* the id the control call returned
    cstream,      \* the stream its Dial opened (0: none)
    cerr,         \* the error it returned
    hpc,          \* per Dispense call: position of dispenseServer.Dispense
    resp,         \* *response
    apc,          \* per Dispense call: position of the goroutine around Accept,
                  \* or the error Accept returned after its timeout
    ap,           \* the pending entry its getStream returned
    astream,      \* the stream it received
    nextId,       \* MuxBroker.nextId of the server's broker
    issued,       \* the values NextId returned, in order
    streams,      \* MuxBroker.streams: id -> pending entry (a place in pend)
    pend,         \* the muxBrokerPending values ever made: [ch, done]
    mLock,        \* the broker mutex: 0, or the stream whose timeoutWait holds it
    wire,         \* the mux streams opened by the client: [c2s, s2c, closed]
    run,          \* MuxBroker.Run: [pc, taken, stream, id, p]
    tw,           \* per stream: its timeoutWait goroutine [pc, p, id, timeout]
    rendezvous,   \* the Accept calls that returned a stream: [id, stream, by]
    closedTwice   \* close() ran on a doneCh that was closed

brokerVars == <<cpc, cname, cid, cstream, cerr, hpc, resp, apc, ap, astream,
                nextId, issued, streams, pend, mLock, wire, run, tw,
                rendezvous, closedTwice>>

\* what no step of the supervisor changes
fixed == <<plugin, closeVars, brokerVars, ping>>
vars == <<supVars, closeVars, brokerVars>>

(* ------------------------------ plugins ------------------------------- *)

LineServeUnix == ServeHandshake("unix", <<"/p">>)
LineServeTcp == ServeHandshake("tcp", <<":1234">>)
LineTcp == <<"tcp", "|", ":1234">>
LineUnix == <<"unix", "|", "/p">>
LineUnixPadded == <<" ", "unix", "|", "/p", " ">>
LineNoBar == <<"hello">>
LineUdp == <<"udp", "|", ":1234">>
LineTcpNoPort == <<"tcp", "|", "/p">>

\* the lines the test helper's stderr command writes to its stderr
StderrLines == <<"HELLO", "WORLD">>

\* plugins that run Serve: listen, print the handshake line, move stdout away,
\* serve until Control.Quit and then return from main
ServePlugins ==
    { [out |-> <<ln>>, serve |-> TRUE, viaServe |-> TRUE, answer |-> TRUE,
       exit |-> FALSE, err |-> 0] : ln \in {LineServeUnix, LineServeTcp} }

\* plugins that print their own line and run an RPCServer on that address;
\* answer = FALSE: the server never gets to the Quit request
OwnServerPlugins ==
    { [out |-> oa[1], serve |-> TRUE, viaServe |-> FALSE, answer |-> oa[2],
       exit |-> FALSE, err |-> 0] :
         oa \in {<<<<LineUnix>>, TRUE>>, <<<<LineUnix>>, FALSE>>,
                 <<<<LineUnixPadded>>, TRUE>>,
                 <<<<LineUnix, LineNoBar>>, TRUE>>} }

\* plugins that listen nowhere (the test helper's mock, stderr, stdin and
\* start-timeout commands and their kin); exit: the process ends by itself
OtherPlugins ==
    { [out |-> ox[1], serve |-> FALSE, viaServe |-> FALSE, answer |-> FALSE,
       exit |-> ox[2], err |-> ox[3]] :
         ox \in {<<<<>>, FALSE, 0>>, <<<<>>, TRUE, 0>>,
                 <<<<LineTcp>>, FALSE, 0>>, <<<<LineTcp>>, TRUE, Len(StderrLines)>>,
                 <<<<LineTcp, LineNoBar>>, FALSE, 0>>,
                 <<<<LineNoBar>>, FALSE, 0>>,
                 <<<<LineUdp>>, FALSE, 0>>,
                 <<<<LineTcpNoPort>>, FALSE, 0>>} }

Plugins == ServePlugins \cup OwnServerPlugins \cup OtherPlugins

\* the child accepts connections at the address it printed
Listening == child = "running" /\ plugin.serve /\ printed >= 1

LocInit == [proc |-> Nil, addr |-> NilAddr, err |-> Nil]

\* no Ping call was made
NoPing == [st |-> "none", err |-> Nil, afterKill |-> FALSE, killBegun |-> FALSE,
           serving |-> FALSE]

NoStartRet ==
    [addr |-> NilAddr, err |-> Nil, line |-> NoLine, spawned |-> FALSE,
     kills |-> 0, child |-> "none", printed |-> 0, returned |-> FALSE]

SupInit ==
    /\ plugin \in Plugins
    /\ child = "none" /\ printed = 0 /\ outPipe = <<>>
    /\ errWritten = 0 /\ errPipe = <<>> /\ sink = <<>>
    /\ cmdPiped = FALSE /\ exited = FALSE /\ l = Nil /\ addr = NilAddr
    /\ proc = Nil /\ proto = Nil /\ doneCtx = "none"
    /\ clientWg = 0 /\ stderrWg = 0 /\ procKilled = FALSE
    /\ fwd = "none" /\ reaper = "none" /\ reader = "none"
    /\ readerLine = NoLine /\ linesClosed = FALSE
    /\ pc = [c \in Callers |-> "idle"]
    /\ op = [c \in Callers |-> Nil]
    /\ loc = [c \in Callers |-> LocInit]
    /\ hist = [c \in Callers |-> <<>>]
    /\ startRet = [c \in Callers |-> NoStartRet]
    /\ nops = 0 /\ osKills = 0
    /\ quit = [c \in Callers |-> "none"]
    /\ srvDone = [DoneCh |-> "open", closes |-> 0] /\ ctlClosing = FALSE /\ closedRes = {}
    /\ ping = NoPing

(* --------------------------- host threads ----------------------------- *)

\* thread c moves to npc; a move to "idle" is the API call returning e
Goto(c, npc, e, nloc) ==
    /\ pc' = [pc EXCEPT ![c] = npc]
    /\ IF npc = "idle"
       THEN /\ hist' = [hist EXCEPT ![c] =
                   Append(@, [op |-> op[c], err |-> e, spawned |-> child # "none"])]
            /\ op' = [op EXCEPT ![c] = Nil]
            /\ loc' = [loc EXCEPT ![c] = LocInit]
       ELSE /\ loc' = [loc EXCEPT ![c] = nloc]
            /\ UNCHANGED <<hist, op>>

\* a host thread calls Start, Protocol or Kill
Call(c) ==
    /\ pc[c] = "idle" /\ nops < MaxOps
    /\ c = "h2" => nops >= 1
    /\ \E o \in {"Start", "Protocol", "Kill"} :
         /\ op' = [op EXCEPT ![c] = o]
         /\ pc' = [pc EXCEPT ![c] = IF o = "Kill" THEN "k_snap" ELSE "s_enter"]
    /\ nops' = nops + 1
    /\ UNCHANGED <<fixed, childVars, taskVars, clientVars, rpcVars, osKills,
                   loc, hist, startRet>>

(* ---------------------------- Client.Start ---------------------------- *)

\* where the thread goes when Start returns (a, e): back to the caller of
\* Start, which is the host, Protocol, or Protocol called by Kill
AfterStart(c, e) ==
    IF op[c] = "Start" THEN "idle"
    ELSE IF e = Nil THEN "p_enter"
    ELSE IF op[c] = "Protocol" THEN "idle"
    ELSE "k_kill"

StartReturns(c, a, e, ln, spawnedNow, kills, ch) ==
    /\ startRet' = [startRet EXCEPT ![c] =
           [addr |-> a, err |-> e, line |-> ln, spawned |-> spawnedNow,
            kills |-> kills, child |-> ch, printed |-> printed, returned |-> TRUE]]
    /\ Goto(c, AfterStart(c, e), e, loc[c])

\* Start up to the select: lock, the cached address, the pipes, cmd.Start(),
\* the three goroutines
StartEnter(c) ==
    /\ pc[c] = "s_enter" /\ l = Nil
    /\ IF addr # NilAddr
       THEN /\ StartReturns(c, addr, Nil, NoLine, FALSE, osKills, child)
            /\ UNCHANGED <<childVars, taskVars, clientVars, osKills>>
       ELSE IF cmdPiped
       THEN /\ StartReturns(c, NilAddr, ErrStdoutSet, NoLine, FALSE, osKills, child)
            /\ UNCHANGED <<childVars, taskVars, clientVars, osKills>>
       ELSE \E started \in BOOLEAN :
              /\ cmdPiped' = TRUE
              /\ IF ~started
                 THEN /\ StartReturns(c, NilAddr, ErrSpawn, NoLine, FALSE, osKills, child)
                      /\ UNCHANGED <<childVars, taskVars, exited, l, addr, proc,
                                     proto, doneCtx, clientWg, stderrWg,
                                     procKilled, osKills>>
                 ELSE /\ child' = "running"
                      /\ proc' = Pid
                      /\ doneCtx' = "live"
                      /\ clientWg' = clientWg + 3
                      /\ stderrWg' = stderrWg + 1
                      /\ fwd' = "read" /\ reaper' = "wait" /\ reader' = "scan"
                      /\ l' = c
                      /\ pc' = [pc EXCEPT ![c] = "s_select"]
                      /\ UNCHANGED <<printed, outPipe, errWritten, errPipe,
                                     readerLine, linesClosed, sink, exited, addr,
                                     proto, procKilled, osKills, op, loc, hist,
                                     startRet>>
    /\ UNCHANGED <<fixed, rpcVars, nops>>

\* cmd.Process.Kill()
ProcessKill(st) == IF st = "running" THEN "dead" ELSE st

\* the select of Start, the lock held: the timer, doneCtx, or a receive from
\* linesCh (from the reader's send, or the zero value once it is closed)
StartSelect(c) ==
    /\ pc[c] = "s_select"
    /\ \E branch \in {"timeout", "done", "line", "closed"} :
         LET ln == IF branch = "line" THEN readerLine ELSE <<>>
             res == IF branch = "timeout"
                      THEN [addr |-> NilAddr, err |-> Nil, ret |-> ErrTimeout]
                    ELSE IF branch = "done"
                      THEN [addr |-> NilAddr, err |-> Nil, ret |-> ErrExited]
                    ELSE ParseHandshake(ln)
             kill == GuardKills(res.err)
         IN  /\ branch = "done" => doneCtx = "cancelled"
             /\ branch = "line" => reader = "send"
             /\ branch = "closed" => linesClosed
             /\ reader' = IF branch = "line" THEN "scan" ELSE reader
             /\ readerLine' = IF branch = "line" THEN NoLine ELSE readerLine
             /\ child' = IF kill THEN ProcessKill(child) ELSE child
             /\ osKills' = IF kill THEN osKills + 1 ELSE osKills
             /\ addr' = IF res.ret = Nil THEN res.addr ELSE addr
             /\ l' = Nil
             /\ StartReturns(c, res.addr, res.ret,
                             IF branch \in {"line", "closed"} THEN ln ELSE NoLine, TRUE,
                             osKills', child')
    /\ UNCHANGED <<fixed, printed, outPipe, errWritten, errPipe, fwd, reaper,
                   linesClosed, sink, cmdPiped, exited, proc, proto, doneCtx,
                   clientWg, stderrWg, procKilled, rpcVars, nops>>

(* --------------------------- Client.Protocol -------------------------- *)

\* Kill going on to proto.Close() whatever Protocol() returned
AfterProtocolAnyway(c, e) ==
    IF op[c] = "Protocol" THEN "idle"
    ELSE "k_quit"

AfterProtocol(c, e) ==
    IF op[c] = "Protocol" THEN "idle"
    ELSE IF e = Nil THEN "k_quit"
    ELSE "k_kill"

\* Protocol after Start returned without error: lock, the cached runtime
ProtocolEnter(c) ==
    /\ pc[c] = "p_enter" /\ l = Nil
    /\ IF proto # Nil
       THEN /\ Goto(c, AfterProtocol(c, Nil), Nil, loc[c])
            /\ l' = l
       ELSE /\ l' = c
            /\ Goto(c, "p_dial", Nil, loc[c])
    /\ UNCHANGED <<fixed, childVars, taskVars, cmdPiped, exited, addr, proc,
                   proto, doneCtx, clientWg, stderrWg, procKilled, rpcVars,
                   osKills, startRet, nops>>

\* newRPCClient under the lock: net.Dial to c.addr, the mux, the three streams
ProtocolDial(c) ==
    /\ pc[c] = "p_dial"
    /\ LET e == IF Listening THEN Nil ELSE ErrDial
       IN  /\ proto' = IF e = Nil THEN "rpc" ELSE Nil
           /\ l' = Nil
           /\ Goto(c, AfterProtocol(c, e), e, loc[c])
    /\ UNCHANGED <<fixed, childVars, taskVars, cmdPiped, exited, addr, proc,
                   doneCtx, clientWg, stderrWg, procKilled, rpcVars, osKills,
                   startRet, nops>>

(* ----------------------------- Client.Kill ---------------------------- *)

\* Kill going on to proc.Kill() without the test of proc
KillSnapNoCheck(c) ==
    /\ pc[c] = "k_snap" /\ l = Nil
    /\ Goto(c, IF addr # NilAddr THEN "s_enter" ELSE "k_kill",
            Nil, [loc[c] EXCEPT !.proc = proc, !.addr = addr])
    /\ UNCHANGED <<fixed, childVars, taskVars, clientVars, rpcVars, osKills,
                   startRet, nops>>

\* Kill calling Protocol() without the test of addr
KillSnapAnyAddr(c) ==
    /\ pc[c] = "k_snap" /\ l = Nil
    /\ Goto(c, IF proc = Nil THEN "idle" ELSE "s_enter",
            Nil, [loc[c] EXCEPT !.proc = proc, !.addr = addr])
    /\ UNCHANGED <<fixed, childVars, taskVars, clientVars, rpcVars, osKills,
                   startRet, nops>>

\* Kill: the snapshot of proc and addr under the lock, and the early return
KillSnap(c) ==
    /\ pc[c] = "k_snap" /\ l = Nil
    /\ Goto(c, IF proc = Nil THEN "idle"
               ELSE IF addr # NilAddr THEN "s_enter"
               ELSE "k_kill",
            Nil, [loc[c] EXCEPT !.proc = proc, !.addr = addr])
    /\ UNCHANGED <<fixed, childVars, taskVars, clientVars, rpcVars, osKills,
                   startRet, nops>>

\* proto.Close(): c.control.Call("Control.Quit", ...) is issued; a client
\* that is closing refuses the call with ErrShutdown
KillQuit(c) ==
    /\ pc[c] = "k_quit"
    /\ IF ctlClosing
       THEN /\ Goto(c, "k_close", Nil, [loc[c] EXCEPT !.err = ErrShutdown])
            /\ quit' = quit
       ELSE /\ Goto(c, "k_quitwait", Nil, loc[c])
            /\ quit' = [quit EXCEPT ![c] = "sent"]
    /\ UNCHANGED <<fixed, childVars, taskVars, clientVars, srvDone, ctlClosing,
                   closedRes, osKills, startRet, nops>>

\* the Quit call returns: with the reply, or with an error once the connection
\* is gone (the child died, or the control client was closed under the call)
KillQuitReturns(c) ==
    /\ pc[c] = "k_quitwait"
    /\ \/ quit[c] = "replied"
       \/ quit[c] # "replied" /\ (child = "dead" \/ ctlClosing)
    /\ Goto(c, "k_close", Nil,
            [loc[c] EXCEPT !.err = IF quit[c] = "replied" THEN Nil
                                   ELSE IF ctlClosing THEN ErrShutdown
                                   ELSE ErrUnexpectedEOF])
    /\ quit' = [quit EXCEPT ![c] = "none"]
    /\ UNCHANGED <<fixed, childVars, taskVars, clientVars, srvDone, ctlClosing,
                   closedRes, osKills, startRet, nops>>

\* what the four Close() calls return: rpc.Client.Close refuses a second call
CloseErrors ==
    [r \in {"control", "stdout", "stderr", "broker"} |->
        IF r = "control" /\ ctlClosing THEN ErrShutdown ELSE Nil]

\* proto.Close() from the control channel's Close on, and
\* graceful = err == nil
KillClose(c) ==
    /\ pc[c] = "k_close"
    /\ LET r == RPCClientClose(loc[c].err, CloseErrors)
       IN  /\ closedRes' = closedRes \cup {r.called[i] : i \in 1..Len(r.called)}
           /\ ctlClosing' = TRUE
           /\ Goto(c, IF r.err = Nil THEN "k_graceful" ELSE "k_kill", Nil,
                   [loc[c] EXCEPT !.err = r.err])
    /\ UNCHANGED <<fixed, childVars, taskVars, clientVars, quit, srvDone,
                   osKills, startRet, nops>>

\* if graceful: select on doneCtx.Done() and time.After(2 * time.Second)
KillGraceful(c) ==
    /\ pc[c] = "k_graceful"
    /\ \E branch \in {"done", "timeout"} :
         /\ branch = "done" => doneCtx = "cancelled"
         /\ Goto(c, IF branch = "done" THEN "k_wait" ELSE "k_kill", Nil, loc[c])
    /\ UNCHANGED <<fixed, childVars, taskVars, clientVars, rpcVars, osKills,
                   startRet, nops>>

\* proc.Kill()
KillProc(c) ==
    /\ pc[c] = "k_kill"
    /\ child' = ProcessKill(child)
    /\ osKills' = osKills + 1
    /\ Goto(c, "k_flag", Nil, loc[c])
    /\ UNCHANGED <<fixed, printed, outPipe, errWritten, errPipe, taskVars,
                   clientVars, rpcVars, startRet, nops>>

\* c.procKilled = true under the lock
KillFlag(c) ==
    /\ pc[c] = "k_flag" /\ l = Nil
    /\ procKilled' = TRUE
    /\ Goto(c, "k_wait", Nil, loc[c])
    /\ UNCHANGED <<fixed, childVars, taskVars, cmdPiped, exited, l, addr, proc,
                   proto, doneCtx, clientWg, stderrWg, rpcVars, osKills,
                   startRet, nops>>

\* KillWait without the join: the deferred function does not wait
KillWaitNoJoin(c) ==
    /\ pc[c] = "k_wait"
    /\ Goto(c, "k_clear", Nil, loc[c])
    /\ UNCHANGED <<fixed, childVars, taskVars, clientVars, rpcVars, osKills,
                   startRet, nops>>

\* the deferred function: c.clientWg.Wait()
KillWait(c) ==
    /\ pc[c] = "k_wait" /\ clientWg = 0
    /\ Goto(c, "k_clear", Nil, loc[c])
    /\ UNCHANGED <<fixed, childVars, taskVars, clientVars, rpcVars, osKills,
                   startRet, nops>>

\* the deferred function forgetting the address along with the process
KillClearAddr(c) ==
    /\ pc[c] = "k_clear" /\ l = Nil
    /\ proc' = Nil /\ addr' = NilAddr
    /\ Goto(c, "idle", Nil, loc[c])
    /\ UNCHANGED <<fixed, childVars, taskVars, cmdPiped, exited, l,
                   proto, doneCtx, clientWg, stderrWg, procKilled, rpcVars,
                   osKills, startRet, nops>>

\* the deferred function: c.proc = nil under the lock, and Kill returns
KillClear(c) ==
    /\ pc[c] = "k_clear" /\ l = Nil
    /\ proc' = Nil
    /\ Goto(c, "idle", Nil, loc[c])
    /\ UNCHANGED <<fixed, childVars, taskVars, cmdPiped, exited, l, addr,
                   proto, doneCtx, clientWg, stderrWg, procKilled, rpcVars,
                   osKills, startRet, nops>>

(* ------------------- the goroutines Start launches -------------------- *)

\* logStderr: one line from the pipe to config.Stderr
FwdLine ==
    /\ fwd = "read" /\ errPipe # <<>>
    /\ errPipe' = Tail(errPipe)
    /\ sink' = Append(sink, Head(errPipe))
    /\ UNCHANGED <<fixed, child, printed, outPipe, errWritten, fwd, reaper,
                   reader, readerLine, linesClosed, clientVars, callVars,
                   rpcVars, osKills>>

\* logStderr: io.EOF, then stderrWg.Done() and clientWg.Done()
FwdEOF ==
    /\ fwd = "read" /\ errPipe = <<>> /\ child = "dead"
    /\ fwd' = "done"
    /\ stderrWg' = stderrWg - 1
    /\ clientWg' = clientWg - 1
    /\ UNCHANGED <<fixed, childVars, reaper, reader, readerLine, linesClosed,
                   sink, cmdPiped, exited, l, addr, proc, proto, doneCtx,
                   procKilled, callVars, rpcVars, osKills>>

\* the reaper going on to cmd.Wait() without c.stderrWg.Wait()
ReaperWaitNoStderr ==
    /\ reaper = "wait" /\ child = "dead"
    /\ reaper' = "lock"
    /\ UNCHANGED <<fixed, childVars, fwd, reader, readerLine, linesClosed, sink,
                   clientVars, callVars, rpcVars, osKills>>

\* the reaper: c.stderrWg.Wait(), then cmd.Wait()
ReaperWait ==
    /\ reaper = "wait" /\ stderrWg = 0 /\ child = "dead"
    /\ reaper' = "lock"
    /\ UNCHANGED <<fixed, childVars, fwd, reader, readerLine, linesClosed, sink,
                   clientVars, callVars, rpcVars, osKills>>

\* the reaper running its deferred calls without having set c.exited
ReaperExitedCancelOnly ==
    /\ reaper = "lock" /\ l = Nil
    /\ exited' = exited
    /\ clientWg' = clientWg - 1
    /\ doneCtx' = "cancelled"
    /\ reaper' = "done"
    /\ UNCHANGED <<fixed, childVars, fwd, reader, readerLine, linesClosed, sink,
                   cmdPiped, l, addr, proc, proto, stderrWg, procKilled,
                   callVars, rpcVars, osKills>>

\* the reaper: c.l.Lock(); c.exited = true; then the deferred c.l.Unlock(),
\* c.clientWg.Done() and c.ctxCancel()
ReaperExited ==
    /\ reaper = "lock" /\ l = Nil
    /\ exited' = TRUE
    /\ clientWg' = clientWg - 1
    /\ doneCtx' = "cancelled"
    /\ reaper' = "done"
    /\ UNCHANGED <<fixed, childVars, fwd, reader, readerLine, linesClosed, sink,
                   cmdPiped, l, addr, proc, proto, stderrWg, procKilled,
                   callVars, rpcVars, osKills>>

\* the reader: sc.Scan() returns a line, to be sent on linesCh (unbuffered:
\* the send ends in StartSelect)
ReaderScan ==
    /\ reader = "scan" /\ outPipe # <<>>
    /\ readerLine' = Head(outPipe)
    /\ outPipe' = Tail(outPipe)
    /\ reader' = "send"
    /\ UNCHANGED <<fixed, child, printed, errWritten, errPipe, fwd, reaper,
                   linesClosed, sink, clientVars, callVars, rpcVars, osKills>>

\* the reader: sc.Scan() returns false, then the deferred close(linesCh) and
\* c.clientWg.Done()
ReaderEOF ==
    /\ reader = "scan" /\ outPipe = <<>> /\ child = "dead"
    /\ linesClosed' = TRUE
    /\ clientWg' = clientWg - 1
    /\ reader' = "done"
    /\ UNCHANGED <<fixed, childVars, fwd, reaper, readerLine, sink, cmdPiped,
                   exited, l, addr, proc, proto, doneCtx, stderrWg, procKilled,
                   callVars, rpcVars, osKills>>

(* --------------------------- the child -------------------------------- *)

\* the child writes its next stdout line
ChildPrint ==
    /\ child = "running" /\ printed < Len(plugin.out)
    /\ outPipe' = Append(outPipe, plugin.out[printed + 1])
    /\ printed' = printed + 1
    /\ UNCHANGED <<fixed, child, errWritten, errPipe, taskVars, clientVars,
                   callVars, rpcVars, osKills>>

\* the child writes a stderr line
ChildStderr ==
    /\ child = "running" /\ errWritten < plugin.err
    /\ errWritten' = errWritten + 1
    /\ errPipe' = Append(errPipe, StderrLines[errWritten + 1])
    /\ UNCHANGED <<fixed, child, printed, outPipe, taskVars, clientVars,
                   callVars, rpcVars, osKills>>

\* the child's main ends: by itself once it has written everything, or
\* (Serve) once DoneCh is closed
ChildExit ==
    /\ child = "running"
    /\ \/ plugin.exit /\ printed = Len(plugin.out) /\ errWritten = plugin.err
       \/ srvDone.closes > 0
    /\ child' = "dead"
    /\ UNCHANGED <<fixed, printed, outPipe, errWritten, errPipe, taskVars,
                   clientVars, callVars, rpcVars, osKills>>

\* done() closing DoneCh without the nil check and without clearing it
RPCServerDoneUnchecked(s) ==
    [DoneCh |-> s.DoneCh, closes |-> s.closes + 1]

\* RPCServer.done(), under s.lock: if s.DoneCh != nil { close(s.DoneCh);
\* s.DoneCh = nil }
RPCServerDone(s) ==
    IF s.DoneCh # Nil
    THEN [DoneCh |-> Nil, closes |-> s.closes + 1]
    ELSE s

\* controlServer.Quit runs for thread c's call: RPCServer.done() closes DoneCh
\* if it is not nil yet
ServerQuit(c) ==
    /\ Listening /\ plugin.answer /\ quit[c] = "sent"
    /\ srvDone' = RPCServerDone(srvDone)
    /\ quit' = [quit EXCEPT ![c] = "handled"]
    /\ UNCHANGED <<fixed, childVars, taskVars, clientVars, callVars,
                   ctlClosing, closedRes, osKills>>

\* the rpc server writes the reply to thread c's Quit call
ServerReply(c) ==
    /\ child = "running" /\ quit[c] = "handled"
    /\ quit' = [quit EXCEPT ![c] = "replied"]
    /\ UNCHANGED <<fixed, childVars, taskVars, clientVars, callVars, srvDone,
                   ctlClosing, closedRes, osKills>>

SupNext ==
    \/ \E c \in Callers :
          \/ Call(c)
          \/ StartEnter(c) \/ StartSelect(c)
          \/ ProtocolEnter(c) \/ ProtocolDial(c)
          \/ KillSnap(c) \/ KillQuit(c) \/ KillQuitReturns(c) \/ KillClose(c)
          \/ KillGraceful(c) \/ KillProc(c) \/ KillFlag(c) \/ KillWait(c)
          \/ KillClear(c)
          \/ ServerQuit(c) \/ ServerReply(c)
    \/ FwdLine \/ FwdEOF
    \/ ReaperWait \/ ReaperExited
    \/ ReaderScan \/ ReaderEOF
    \/ ChildPrint \/ ChildStderr \/ ChildExit

NoCloseOut == [done |-> FALSE, err |-> Nil, called |-> <<>>]

\* no RPCClient.Close call of the Close specification is under way
CloseIdle ==
    /\ closeIn = [quit |-> Nil, e |-> [r \in {"control", "stdout", "stderr", "broker"} |-> Nil]]
    /\ closeOut = NoCloseOut

\* a uint32 is kept as its two 16-bit halves, so that all 32 bits fit
U32(n) == [lo |-> n % 65536, hi |-> (n \div 65536) % 65536]

\* the number a uint32 stands for, for values below 2^31
Val(v) == v.hi * 65536 + v.lo

\* binary.Write(w, binary.LittleEndian, v) of a uint32: four bytes
PutUint32LE(v) == <<v.lo % 256, v.lo \div 256, v.hi % 256, v.hi \div 256>>

\* binary.Read(r, binary.LittleEndian, &v) of a uint32
Uint32LE(b) == [lo |-> b[1] + 256 * b[2], hi |-> b[3] + 256 * b[4]]

\* atomic.AddUint32 without the add: the old value comes back
AddUint32Lost(v, delta) == [lo |-> v.lo % 65536, hi |-> v.hi % 65536]

\* atomic.AddUint32(&v, delta): the new value, in 32 bits
AddUint32(v, delta) ==
    [lo |-> (v.lo + delta) % 65536,
     hi |-> (v.hi + (v.lo + delta) \div 65536) % 65536]

\* NextId answering with the counter as it stands
NextIdSame(v) == AddUint32(v, 0)

\* MuxBroker.NextId
NextId(v) == AddUint32(v, 1)

Dispensers == {"d1", "d2"}

\* a session on which nothing has been dispensed yet
BrokerInit ==
    /\ cpc = [d \in Dispensers |-> "idle"]
    /\ cname = [d \in Dispensers |-> Nil]
    /\ cid = [d \in Dispensers |-> U32(0)]
    /\ cstream = [d \in Dispensers |-> 0]
    /\ cerr = [d \in Dispensers |-> Nil]
    /\ hpc = [d \in Dispensers |-> "none"]
    /\ resp = [d \in Dispensers |-> U32(0)]
    /\ apc = [d \in Dispensers |-> "none"]
    /\ ap = [d \in Dispensers |-> 0]
    /\ astream = [d \in Dispensers |-> 0]
    /\ nextId = U32(0) /\ issued = <<>>
    /\ streams = [i \in {} |-> 0]
    /\ pend = <<>> /\ mLock = 0 /\ wire = <<>>
    /\ run = [pc |-> "accept", taken |-> 0, stream |-> 0, id |-> U32(0),
              p |-> 0]
    /\ tw = <<>>
    /\ rendezvous = <<>> /\ closedTwice = FALSE

Init == SupInit /\ CloseIdle /\ BrokerInit

Spec == Init /\ [][SupNext]_vars

\* fairness: every thread, goroutine and process that can take a step takes
\* one; timers fire
SpecLive ==
    /\ Init /\ [][SupNext]_vars
    /\ \A c \in Callers :
         /\ WF_vars(StartEnter(c) \/ StartSelect(c) \/ ProtocolEnter(c)
                       \/ ProtocolDial(c))
         /\ WF_vars(KillSnap(c) \/ KillQuit(c) \/ KillQuitReturns(c)
                       \/ KillClose(c) \/ KillGraceful(c) \/ KillProc(c)
                       \/ KillFlag(c) \/ KillWait(c) \/ KillClear(c))
         /\ WF_vars(ServerQuit(c) \/ ServerReply(c))
    /\ WF_vars(FwdLine \/ FwdEOF)
    /\ WF_vars(ReaperWait \/ ReaperExited)
    /\ WF_vars(ReaderScan \/ ReaderEOF)
    /\ WF_vars(ChildPrint \/ ChildStderr \/ ChildExit)

(* --------------------------- RPCClient.Ping --------------------------- *)

\* a Protocol() call of the host has returned the runtime
HostHasRuntime ==
    \E c \in Callers : \E i \in 1..Len(hist[c]) :
        hist[c][i].op = "Protocol" /\ hist[c][i].err = Nil

\* a Kill call has returned on the client after its child was spawned
KillReturned ==
    \E c \in Callers : \E i \in 1..Len(hist[c]) :
        hist[c][i].op = "Kill" /\ hist[c][i].spawned

\* a Kill call has begun
KillBegun ==
    \E c \in Callers :
        op[c] = "Kill" \/ \E i \in 1..Len(hist[c]) : hist[c][i].op = "Kill"

\* a control call that answers nil whatever became of the connection
CallOutcomeNil(replied, closing) == Nil

\* what c.control.Call returns: nil with the reply, ErrShutdown from a client
\* that is closing, io.ErrUnexpectedEOF when the connection was lost
CallOutcome(replied, closing) ==
    IF replied THEN Nil
    ELSE IF closing THEN ErrShutdown
    ELSE ErrUnexpectedEOF

\* the Ping call ends with error e
PingDone(e) ==
    ping' = [ping EXCEPT !.st = "done", !.err = e, !.killBegun = KillBegun,
                         !.serving = Listening /\ plugin.answer]

\* Ping: c.control.Call("Control.Ping", ...) is issued; a client that is
\* closing refuses the call
PingCall ==
    /\ ping.st = "none" /\ HostHasRuntime
    /\ IF ctlClosing
       THEN ping' = [ping EXCEPT !.st = "done", !.afterKill = KillReturned,
                                 !.err = CallOutcome(FALSE, TRUE),
                                 !.killBegun = KillBegun,
                                 !.serving = Listening /\ plugin.answer]
       ELSE ping' = [ping EXCEPT !.st = "sent", !.afterKill = KillReturned]
    /\ UNCHANGED <<plugin, closeVars, brokerVars, childVars, taskVars,
                   clientVars, callVars, rpcVars, osKills>>

\* controlServer.Ping runs and the rpc server writes the reply
PingServe ==
    /\ ping.st = "sent" /\ Listening /\ plugin.answer
    /\ ping' = [ping EXCEPT !.st = "replied"]
    /\ UNCHANGED <<plugin, closeVars, brokerVars, childVars, taskVars,
                   clientVars, callVars, rpcVars, osKills>>

\* the Ping call returns: with the reply, or with an error once the connection
\* is gone or the control client was closed under the call
PingReturns ==
    /\ \/ ping.st = "replied" /\ PingDone(CallOutcome(TRUE, ctlClosing))
       \/ /\ ping.st \in {"sent", "replied"} /\ ctlClosing
          /\ PingDone(CallOutcome(FALSE, TRUE))
       \/ /\ ping.st = "sent" /\ child = "dead" /\ ~ctlClosing
          /\ PingDone(CallOutcome(FALSE, FALSE))
    /\ UNCHANGED <<plugin, closeVars, brokerVars, childVars, taskVars,
                   clientVars, callVars, rpcVars, osKills>>

PingNext == SupNext \/ PingCall \/ PingServe \/ PingReturns

\* the supervisor with one Ping call of the host
SpecPing == Init /\ [][PingNext]_vars

(* ====================== claims: the supervisor ======================== *)

TasksDone == fwd = "done" /\ reaper = "done" /\ reader = "done"

HandshakeCases ==
    { [network |-> "unix", address |-> <<"/p">>],
      [network |-> "tcp", address |-> <<":1234">>] }

\* C1: a Start call that reads the line Serve prints,
\* <core version>|<app version>|<network>|<address> with network tcp or unix,
\* returns no error and the address (network, address).
C1_ServeLineAccepted ==
    \A c \in Callers : \A h \in HandshakeCases :
        startRet[c].line = ServeHandshake(h.network, h.address)
            => /\ startRet[c].err = Nil
               /\ startRet[c].addr = [network |-> h.network, str |-> h.address]

\* C3: with a plugin that runs Serve and whose handshake line Start has read,
\* a thread that called Protocol() and then Kill() (nothing else was called)
\* finds Exited() true and killed() false
\* once Kill has returned, and no Process.Kill() was issued.
C3_ServeKillIsGraceful ==
    ( /\ plugin.viaServe /\ child # "none"
      /\ startRet["h1"].returned /\ startRet["h1"].line = plugin.out[1]
      /\ nops = 2 /\ pc["h1"] = "idle" /\ Len(hist["h1"]) = 2
      /\ hist["h1"][1].op = "Protocol" /\ hist["h1"][2].op = "Kill" )
        => exited /\ ~procKilled /\ osKills = 0

\* C4: once a Kill call has returned on a client with a spawned child, the
\* stderr forwarder, the reaper and the stdout reader have finished, exited is
\* true and proc is nil; and proc is nil after the spawn only if the three
\* goroutines have finished.
C4_KillJoinsThenClears ==
    /\ (child # "none" /\ proc = Nil) => TasksDone
    /\ \A c \in Callers : \A i \in 1..Len(hist[c]) :
          (hist[c][i].op = "Kill" /\ hist[c][i].spawned)
              => TasksDone /\ exited /\ proc = Nil

\* a Kill call returned after the child was spawned and killed by it
C4_Witness ==
    \E c \in Callers : \E i \in 1..Len(hist[c]) :
        hist[c][i].op = "Kill" /\ hist[c][i].spawned /\ procKilled

\* C5: every Kill call returns in the end, whatever the plugin does.
C5_KillReturns ==
    \A c \in Callers : (op[c] = "Kill") ~> (op[c] = Nil)

\* C6: a Start call that spawned the child and returns an error has had
\* Process.Kill() issued before it returns.
C6_StartErrorKillsChild ==
    \A c \in Callers :
        (startRet[c].returned /\ startRet[c].spawned /\ startRet[c].err # Nil)
            => startRet[c].kills >= 1

\* C7: a Start call that returns after the child exited without having
\* written a stdout line, and not by the start timeout, returns
\* "plugin exited before we could connect".
C7_ExitBeforeLine ==
    \A c \in Callers :
        ( /\ startRet[c].returned /\ startRet[c].spawned
          /\ startRet[c].child = "dead" /\ startRet[c].printed = 0
          /\ startRet[c].kills = 0 /\ startRet[c].err # ErrTimeout )
            => startRet[c].err = ErrExited

\* C11: once addr is set it keeps its value, and a Start call that begins its
\* body while addr is set returns addr and no error in that step, with the
\* child, its pipes, the three goroutines and both wait groups left as they
\* are.
C11_StartIdempotent ==
    [][ addr # NilAddr =>
          /\ addr' = addr
          /\ \A c \in Callers :
                (pc[c] = "s_enter" /\ pc'[c] # "s_enter") =>
                    /\ startRet'[c].returned /\ startRet'[c].err = Nil
                    /\ startRet'[c].addr = addr /\ ~startRet'[c].spawned
                    /\ UNCHANGED <<childVars, taskVars, cmdPiped, proc, clientWg,
                                   stderrWg, doneCtx, osKills>> ]_vars

\* a Start call returned the cached address on a client that Kill was called on
C11_Witness ==
    \E c \in Callers :
        /\ startRet[c].returned /\ ~startRet[c].spawned
        /\ startRet[c].err = Nil /\ startRet[c].addr = addr /\ addr # NilAddr
        /\ \E k \in Callers : \E i \in 1..Len(hist[k]) : hist[k][i].op = "Kill"
        /\ Len(hist[c]) >= 1 /\ hist[c][Len(hist[c])].op = "Start"

\* the family field of a stdout line: what stands before the first "|"
FamilyField(rawLine) == SplitN(TrimSpace(rawLine), "|", 2)[1]

\* C12: addr is set only if a Start call returned it without error, its
\* network is then tcp or unix and is the family field of the child's first
\* stdout line; and while a thread's last Start call returned an error, addr is
\* unset.
C12_AddrOnlyAfterHandshake ==
    /\ addr # NilAddr =>
          /\ \E c \in Callers : /\ startRet[c].returned /\ startRet[c].err = Nil
                                /\ startRet[c].addr = addr
          /\ addr.network \in {"tcp", "unix"}
          /\ printed >= 1 /\ FamilyField(plugin.out[1]) = <<addr.network>>
    /\ \A c \in Callers :
          (startRet[c].returned /\ startRet[c].err # Nil) => addr = NilAddr

\* addr is set from a line with blanks around it, by the Start call that
\* spawned the child
C12_Witness ==
    /\ addr # NilAddr /\ plugin.out[1] = LineUnixPadded
    /\ \E c \in Callers : startRet[c].returned /\ startRet[c].spawned

\* C13: a Ping call on the runtime a Protocol() call returned ends without
\* error if it ends while the plugin serves and no Kill call has begun; a Ping
\* call made after a Kill call has returned ends with an error.
C13_PingFollowsKill ==
    ping.st = "done" =>
        /\ (ping.serving /\ ~ping.killBegun) => ping.err = Nil
        /\ ping.afterKill => ping.err # Nil

\* a Ping call was answered before any Kill call, on a client that was killed
\* later
C13_WitnessServed ==
    ping.st = "done" /\ ping.serving /\ ~ping.killBegun /\ KillReturned

\* a Ping call made after Kill had returned has ended
C13_Witness ==
    ping.st = "done" /\ ping.afterKill /\ HostHasRuntime

\* the positions of Kill on its graceful path: proto.Close() and the wait of
\* two seconds
GracefulPath == {"k_quit", "k_quitwait", "k_close", "k_graceful"}

\* C14: with an address cached by Start and a plugin that listens nowhere, no
\* Kill call is ever on the graceful path, and once a Kill call has returned
\* Process.Kill() was issued, killed() is true and Exited() is true.
C14_NoRuntimeForcesKill ==
    (~plugin.serve /\ addr # NilAddr) =>
        /\ \A c \in Callers : pc[c] \notin GracefulPath
        /\ proto = Nil
        /\ \A c \in Callers : \A i \in 1..Len(hist[c]) :
              (hist[c][i].op = "Kill" /\ hist[c][i].spawned)
                  => procKilled /\ exited /\ osKills >= 1

\* Start returned the address a plugin printed that listens nowhere, and a
\* Kill call after it has returned
C14_Witness ==
    /\ ~plugin.serve /\ addr # NilAddr
    /\ \E c \in Callers : \E i \in 1..Len(hist[c]) :
          /\ i >= 2 /\ hist[c][i].op = "Kill" /\ hist[c][i].spawned
          /\ hist[c][i - 1].op = "Start" /\ hist[c][i - 1].err = Nil

\* C15: while Exited() is true the stderr forwarder has finished, nothing is
\* left in the stderr pipe, and config.Stderr holds the lines the child wrote
\* to its stderr, all of them and in the order written.
C15_ExitedAfterStderr ==
    exited =>
        /\ fwd = "done" /\ errPipe = <<>>
        /\ sink = SubSeq(StderrLines, 1, errWritten)

\* Exited() is true after a child that wrote both its stderr lines
C15_Witness ==
    exited /\ errWritten = Len(StderrLines) /\ Len(sink) = Len(StderrLines)

ForcedPath == {"k_snap", "k_kill", "k_flag", "k_wait", "k_clear"}

\* C19: a Start call that returns while the child is running and has printed
\* nothing returns "timeout while waiting for plugin to start"; after a Start
\* call has returned that error addr is unset and no runtime exists, every
\* Kill call is on the forced path only, and a Kill call that has returned
\* after it on the spawned child has issued Process.Kill().
C19_StartTimeout ==
    /\ \A c \in Callers :
          ( /\ startRet[c].returned /\ startRet[c].spawned
            /\ startRet[c].child = "running" /\ startRet[c].printed = 0 )
              => startRet[c].err = ErrTimeout
    /\ (\E c \in Callers : startRet[c].returned /\ startRet[c].err = ErrTimeout) =>
          /\ addr = NilAddr /\ proto = Nil
          /\ \A c \in Callers : op[c] = "Kill" => pc[c] \in ForcedPath
          /\ \A c \in Callers : \A i \in 1..Len(hist[c]) :
                (hist[c][i].op = "Kill" /\ hist[c][i].spawned)
                    => procKilled /\ osKills >= 1

\* Start timed out on a child that had printed nothing, and the Kill call that
\* followed has returned
C19_Witness ==
    \E c \in Callers :
        /\ startRet[c].returned /\ startRet[c].err = ErrTimeout
        /\ startRet[c].printed = 0 /\ startRet[c].child = "running"
        /\ Len(hist[c]) = 2 /\ hist[c][1].op = "Start" /\ hist[c][2].op = "Kill"
        /\ hist[c][2].spawned /\ procKilled

\* the places where a call waits: Start for the first stdout line or the
\* timer, Protocol in the dial, Kill for the answer to Quit, in Close, for the
\* exit or the 2 seconds, and in clientWg.Wait()
Waiting == {"s_select", "p_dial", "k_quitwait", "k_close", "k_graceful", "k_wait"}

\* C24: the supervisor's mutex c.l is never held by a call that waits on I/O,
\* on a timer or on a join, so that Exited(), killed() and the reaper can take
\* it while Start waits for the first stdout line and while Protocol() dials
C24_NoLockWhileWaiting ==
    \A c \in Callers : pc[c] \in Waiting => l # c

\* exited goes from false to true in this step
ExitedSet == ~exited /\ exited'

\* C25: whenever doneCtx is cancelled exited is true; exited goes from false
\* to true only in the reaper, with the lock, after cmd.Wait() has seen the
\* child dead, and it never goes back to false (so it is set at most once)
C25_ExitedOnceByReaper ==
    /\ [](doneCtx = "cancelled" => exited)
    /\ [][/\ exited => exited'
          /\ ExitedSet => /\ reaper = "lock" /\ reaper' = "done"
                          /\ child = "dead" /\ l = Nil]_vars

\* the reaper has seen the child dead, set exited and cancelled doneCtx while
\* a Kill call was waiting for the exit
C25_Witness ==
    /\ exited /\ doneCtx = "cancelled" /\ reaper = "done" /\ child = "dead"
    /\ \E c \in Callers : pc[c] = "k_graceful"

\* the Quit calls that controlServer.Quit has answered with success
QuitServed == {c \in Callers : quit[c] \in {"handled", "replied"}}

\* C26: however many Quit calls reach the server, DoneCh is closed exactly
\* once, never a second time, and each call is answered with the empty
\* success response
C26_QuitClosesOnce ==
    /\ srvDone.closes <= 1
    /\ srvDone.closes = 1 <=> srvDone.DoneCh = Nil
    /\ QuitServed # {} => srvDone.closes = 1
    /\ \A c \in Callers :
          (quit[c] = "sent" /\ srvDone.closes = 1 /\ Listening /\ plugin.answer)
              => ENABLED ServerQuit(c)

\* two Quit calls, from two overlapping Kill calls, have both been answered
C26_Witness ==
    /\ QuitServed = Callers
    /\ srvDone.closes = 1

\* both host threads are inside Kill and thread c's call returns in this step
KillReturnsDuringKill(c) ==
    /\ \A k \in Callers : op[k] = "Kill"
    /\ op'[c] = Nil

\* C27: for a plugin that serves through Serve and has been spawned, when one
\* of two Kill calls that run at the same time returns, the child has exited,
\* proc is nil, no OS-level kill was issued and killed() is false, as after a
\* single graceful Kill
C27_OverlappingKills ==
    [][\A c \in Callers :
          (plugin.viaServe /\ child # "none" /\ KillReturnsDuringKill(c))
              => /\ exited' /\ proc' = Nil
                 /\ ~procKilled' /\ osKills' = 0]_vars

(* ========================= RPCClient.Close ============================ *)

\* what c.control.Call("Control.Quit", ...) can return
QuitResults == {Nil, ErrShutdown, ErrUnexpectedEOF, ErrServer}

\* what a failing Close() of each resource returns
CloseFailure ==
    [control |-> "control: close failed", stdout |-> "stdout: close failed",
     stderr |-> "stderr: close failed", broker |-> "broker: close failed"]

ResourceSet == {Resources[i] : i \in 1..Len(Resources)}

CloseInputs ==
    /\ closeIn \in [quit : QuitResults,
                    e : {f \in [ResourceSet -> {Nil} \cup
                                   {CloseFailure[r] : r \in ResourceSet}] :
                           \A r \in ResourceSet : f[r] \in {Nil, CloseFailure[r]}}]
    /\ closeOut = NoCloseOut

\* a Close call from its Quit call to its return
CloseCall ==
    /\ ~closeOut.done
    /\ LET r == RPCClientClose(closeIn.quit, closeIn.e)
       IN  closeOut' = [done |-> TRUE, err |-> r.err, called |-> r.called]
    /\ UNCHANGED <<closeIn, supVars, brokerVars>>

CloseNext == CloseCall

\* the supervisor at rest, and a Close call about to run
InitClose ==
    /\ SupInit /\ plugin.out = <<>> /\ ~plugin.exit
    /\ CloseInputs
    /\ BrokerInit

SpecClose == InitClose /\ [][CloseNext]_vars

\* the places in Resources of the Close() calls that fail
Failing == {i \in 1..Len(Resources) : closeIn.e[Resources[i]] # Nil}

FirstFailing == CHOOSE i \in Failing : \A j \in Failing : i <= j

\* C8 as stated: once Close has returned, Close() has been called on the control
\* channel, the stdout stream, the stderr stream and the broker, whatever the
\* Quit call and the earlier Close() calls returned.
C8_AllClosedAlways ==
    closeOut.done => closeOut.called = Resources

\* C8: once Close has returned, Close() has been called on the resources in
\* order up to and including the first whose Close() failed and on none after
\* it, on all four when none failed; whether the Quit call failed plays no part.
C8_ClosedUpToFirstFailure ==
    closeOut.done =>
        closeOut.called =
            SubSeq(Resources, 1,
                   IF Failing = {} THEN Len(Resources) ELSE FirstFailing)

\* the Quit call failed and all four were closed
C8_Witness ==
    closeOut.done /\ closeIn.quit # Nil /\ Len(closeOut.called) = Len(Resources)

\* C9 as stated: Close returns the Quit call's error whenever that call failed,
\* the first Close() error only when it succeeded, and no error only when
\* nothing failed.
C9_QuitErrorWins ==
    closeOut.done =>
        closeOut.err =
            IF closeIn.quit # Nil THEN closeIn.quit
            ELSE IF Failing # {} THEN closeIn.e[Resources[FirstFailing]]
            ELSE Nil

\* C9: Close returns the first Close() error whenever a Close() failed, even
\* if the Quit call failed too; the Quit call's error only when all four
\* Close() calls succeeded; no error only when nothing failed.
C9_CloseErrorWins ==
    closeOut.done =>
        closeOut.err =
            IF Failing # {} THEN closeIn.e[Resources[FirstFailing]]
            ELSE closeIn.quit

\* the Quit call and a Close() both failed
C9_Witness ==
    closeOut.done /\ closeIn.quit # Nil /\ Failing # {}

(* ============================ MuxBroker =============================== *)

ErrUnknownPlugin == "unknown plugin type"
ErrBadAck == "bad ack"
ErrAcceptTimeout == "timeout waiting for accept"
ErrStreamClosed == "stream closed"

\* the plugin sets of the two sides, and the names a host may ask for
ClientPlugins == {"test", "extra"}
ServerPlugins == {"test"}
Names == {"test", "extra", "nope"}

\* the bytes of an RPC request and of its response, as the codec writes them
RpcRequest == <<255>>
RpcResponse == <<254>>

\* MuxBroker.getStream(id) under the mutex: the entry of id, made if absent
GetStream(id) ==
    IF id \in DOMAIN streams
    THEN [p |-> streams[id], streams |-> streams, pend |-> pend]
    ELSE [p |-> Len(pend) + 1,
          streams |-> [i \in DOMAIN streams \cup {id} |->
                          IF i = id THEN Len(pend) + 1 ELSE streams[i]],
          pend |-> Append(pend, [ch |-> 0, done |-> FALSE])]

\* delete(m.streams, id)
Delete(id) == [i \in DOMAIN streams \ {id} |-> streams[i]]

(* ------------------------ RPCClient.Dispense -------------------------- *)

\* Dispense(name) sending the control call without the lookup in c.plugins
DispenseCallNoLookup(d) ==
    /\ cpc[d] = "idle"
    /\ \E n \in Names :
         /\ cname' = [cname EXCEPT ![d] = n]
         /\ cpc' = [cpc EXCEPT ![d] = "call"]
         /\ hpc' = [hpc EXCEPT ![d] = "lookup"]
         /\ cerr' = cerr
    /\ UNCHANGED <<supVars, closeVars, cid, cstream, resp, apc, ap, astream,
                   nextId, issued, streams, pend, mLock, wire, run, tw,
                   rendezvous, closedTwice>>

\* Dispense(name): the lookup in c.plugins, then the control call is sent
DispenseCall(d) ==
    /\ cpc[d] = "idle"
    /\ \E n \in Names :
         /\ cname' = [cname EXCEPT ![d] = n]
         /\ IF n \in ClientPlugins
            THEN /\ cpc' = [cpc EXCEPT ![d] = "call"]
                 /\ hpc' = [hpc EXCEPT ![d] = "lookup"]
                 /\ cerr' = cerr
            ELSE /\ cpc' = [cpc EXCEPT ![d] = "failed"]
                 /\ cerr' = [cerr EXCEPT ![d] = ErrUnknownPlugin]
                 /\ hpc' = hpc
    /\ UNCHANGED <<supVars, closeVars, cid, cstream, resp, apc, ap, astream,
                   nextId, issued, streams, pend, mLock, wire, run, tw,
                   rendezvous, closedTwice>>

\* dispenseServer.Dispense: the lookup in d.plugins and p.Server(d.broker)
ServerLookup(d) ==
    /\ hpc[d] = "lookup"
    /\ hpc' = [hpc EXCEPT ![d] =
                  IF cname[d] \in ServerPlugins THEN "nextid" ELSE "error"]
    /\ UNCHANGED <<supVars, closeVars, cpc, cname, cid, cstream, cerr, resp, apc,
                   ap, astream, nextId, issued, streams, pend, mLock, wire, run,
                   tw, rendezvous, closedTwice>>

\* dispenseServer.Dispense: id := d.broker.NextId(); *response = id
ServerNextId(d) ==
    /\ hpc[d] = "nextid"
    /\ nextId' = NextId(nextId)
    /\ resp' = [resp EXCEPT ![d] = nextId']
    /\ issued' = Append(issued, nextId')
    /\ hpc' = [hpc EXCEPT ![d] = "go"]
    /\ UNCHANGED <<supVars, closeVars, cpc, cname, cid, cstream, cerr, apc, ap,
                   astream, streams, pend, mLock, wire, run, tw, rendezvous,
                   closedTwice>>

\* dispenseServer.Dispense: the goroutine around Accept(id) starts, and the
\* call returns nil
ServerReturn(d) ==
    /\ hpc[d] = "go"
    /\ apc' = [apc EXCEPT ![d] = "get"]
    /\ hpc' = [hpc EXCEPT ![d] = "replied"]
    /\ UNCHANGED <<supVars, closeVars, cpc, cname, cid, cstream, cerr, resp, ap,
                   astream, nextId, issued, streams, pend, mLock, wire, run, tw,
                   rendezvous, closedTwice>>

\* the control call returns to Dispense: an error, or the id
DispenseReply(d) ==
    /\ cpc[d] = "call" /\ hpc[d] \in {"error", "replied"}
    /\ IF hpc[d] = "error"
       THEN /\ cpc' = [cpc EXCEPT ![d] = "failed"]
            /\ cerr' = [cerr EXCEPT ![d] = ErrUnknownPlugin]
            /\ cid' = cid
       ELSE /\ cpc' = [cpc EXCEPT ![d] = "dial"]
            /\ cid' = [cid EXCEPT ![d] = resp[d]]
            /\ cerr' = cerr
    /\ UNCHANGED <<supVars, closeVars, cname, cstream, hpc, resp, apc, ap,
                   astream, nextId, issued, streams, pend, mLock, wire, run, tw,
                   rendezvous, closedTwice>>

(* --------------------------- MuxBroker.Dial --------------------------- *)

\* Dial(id): m.session.OpenStream() and binary.Write(stream, LittleEndian, id)
DialOpen(d) ==
    /\ cpc[d] = "dial"
    /\ wire' = Append(wire, [c2s |-> PutUint32LE(cid[d]), s2c |-> <<>>,
                             closed |-> {}])
    /\ tw' = Append(tw, [pc |-> "none", p |-> 0, id |-> U32(0), timeout |-> FALSE])
    /\ cstream' = [cstream EXCEPT ![d] = Len(wire) + 1]
    /\ cpc' = [cpc EXCEPT ![d] = "ack"]
    /\ UNCHANGED <<supVars, closeVars, cname, cid, cerr, hpc, resp, apc, ap,
                   astream, nextId, issued, streams, pend, mLock, run,
                   rendezvous, closedTwice>>

\* Dial(id) returning the stream without reading the ack
DialAckUnread(d) ==
    /\ cpc[d] = "ack"
    /\ cpc' = [cpc EXCEPT ![d] = "ok"]
    /\ UNCHANGED <<cerr, wire>>
    /\ UNCHANGED <<supVars, closeVars, cname, cid, cstream, hpc, resp, apc, ap,
                   astream, nextId, issued, streams, pend, mLock, run, tw,
                   rendezvous, closedTwice>>

\* Dial(id): binary.Read(stream, LittleEndian, &ack) and the comparison with
\* id; Dispense then builds the proxy with p.Client
DialAck(d) ==
    /\ cpc[d] = "ack"
    /\ LET s == cstream[d]
           gotAck == Len(wire[s].s2c) >= 4
           ack == Uint32LE(SubSeq(wire[s].s2c, 1, 4))
       IN  /\ gotAck \/ "server" \in wire[s].closed
           /\ IF gotAck /\ ack = cid[d]
              THEN /\ cpc' = [cpc EXCEPT ![d] = "ok"]
                   /\ UNCHANGED <<cerr, wire>>
              ELSE /\ cpc' = [cpc EXCEPT ![d] = "failed"]
                   /\ cerr' = [cerr EXCEPT ![d] =
                                  IF gotAck THEN ErrBadAck ELSE ErrStreamClosed]
                   /\ wire' = [wire EXCEPT ![s].closed = @ \cup {"client"}]
    /\ UNCHANGED <<supVars, closeVars, cname, cid, cstream, hpc, resp, apc, ap,
                   astream, nextId, issued, streams, pend, mLock, run, tw,
                   rendezvous, closedTwice>>

\* the proxy's first call: the rpc client writes a request on the stream
ProxyCall(d) ==
    /\ cpc[d] = "ok"
    /\ Len(wire[cstream[d]].c2s) = 4
    /\ wire' = [wire EXCEPT ![cstream[d]].c2s = @ \o RpcRequest]
    /\ UNCHANGED <<supVars, closeVars, cpc, cname, cid, cstream, cerr, hpc, resp,
                   apc, ap, astream, nextId, issued, streams, pend, mLock, run,
                   tw, rendezvous, closedTwice>>

(* -------------------------- MuxBroker.Accept -------------------------- *)

\* Accept(id): p := m.getStream(id)
AcceptGet(d) ==
    /\ apc[d] = "get" /\ mLock = 0
    /\ LET g == GetStream(resp[d])
       IN  /\ ap' = [ap EXCEPT ![d] = g.p]
           /\ streams' = g.streams
           /\ pend' = g.pend
    /\ apc' = [apc EXCEPT ![d] = "select"]
    /\ UNCHANGED <<supVars, closeVars, cpc, cname, cid, cstream, cerr, hpc, resp,
                   astream, nextId, issued, mLock, wire, run, tw, rendezvous,
                   closedTwice>>

\* Accept(id): the select: a stream from p.ch and close(p.doneCh), or
\* time.After(5 * time.Second)
AcceptSelect(d) ==
    /\ apc[d] = "select"
    /\ \E branch \in {"stream", "timeout"} :
         IF branch = "stream"
         THEN /\ pend[ap[d]].ch # 0
              /\ astream' = [astream EXCEPT ![d] = pend[ap[d]].ch]
              /\ pend' = [pend EXCEPT ![ap[d]] = [ch |-> 0, done |-> TRUE]]
              /\ closedTwice' = (closedTwice \/ pend[ap[d]].done)
              /\ apc' = [apc EXCEPT ![d] = "ack"]
         ELSE /\ apc' = [apc EXCEPT ![d] = "timeout"]
              /\ UNCHANGED <<astream, pend, closedTwice>>
    /\ UNCHANGED <<supVars, closeVars, cpc, cname, cid, cstream, cerr, hpc, resp,
                   ap, nextId, issued, streams, mLock, wire, run, tw, rendezvous>>

\* Accept(id) returning its timeout error with the entry left in the map
AcceptTimeoutKeepsEntry(d) ==
    /\ apc[d] = "timeout" /\ mLock = 0
    /\ apc' = [apc EXCEPT ![d] = ErrAcceptTimeout]
    /\ UNCHANGED <<supVars, closeVars, cpc, cname, cid, cstream, cerr, hpc, resp,
                   ap, astream, nextId, issued, streams, pend, mLock, wire, run,
                   tw, rendezvous, closedTwice>>

\* Accept(id) after the timeout: m.Lock(); delete(m.streams, id); the error
AcceptTimeout(d) ==
    /\ apc[d] = "timeout" /\ mLock = 0
    /\ streams' = Delete(resp[d])
    /\ apc' = [apc EXCEPT ![d] = ErrAcceptTimeout]
    /\ UNCHANGED <<supVars, closeVars, cpc, cname, cid, cstream, cerr, hpc, resp,
                   ap, astream, nextId, issued, pend, mLock, wire, run, tw,
                   rendezvous, closedTwice>>

\* what Accept(id) writes back on the stream
AckBytes(id) == PutUint32LE(id)

\* Accept(id): binary.Write(c, LittleEndian, id), and the stream is returned
\* and served
AcceptAck(d) ==
    /\ apc[d] = "ack"
    /\ LET s == astream[d]
       IN  IF "client" \in wire[s].closed
           THEN /\ wire' = [wire EXCEPT ![s].closed = @ \cup {"server"}]
                /\ apc' = [apc EXCEPT ![d] = "failed"]
                /\ rendezvous' = rendezvous
           ELSE /\ wire' = [wire EXCEPT ![s].s2c = @ \o AckBytes(resp[d])]
                /\ apc' = [apc EXCEPT ![d] = "serving"]
                /\ rendezvous' = Append(rendezvous,
                                        [id |-> resp[d], stream |-> s, by |-> d])
    /\ UNCHANGED <<supVars, closeVars, cpc, cname, cid, cstream, cerr, hpc, resp,
                   ap, astream, nextId, issued, streams, pend, mLock, run, tw,
                   closedTwice>>

\* serve(conn, "Plugin", impl): the rpc server answers the first request
ServeReply(d) ==
    /\ apc[d] = "serving"
    /\ LET s == astream[d]
       IN  /\ Len(wire[s].c2s) > 4 /\ Len(wire[s].s2c) = 4
           /\ wire' = [wire EXCEPT ![s].s2c = @ \o RpcResponse]
    /\ UNCHANGED <<supVars, closeVars, cpc, cname, cid, cstream, cerr, hpc, resp,
                   apc, ap, astream, nextId, issued, streams, pend, mLock, run,
                   tw, rendezvous, closedTwice>>

(* ------------------- MuxBroker.Run and timeoutWait -------------------- *)

\* the id Run reads from the head of a stream
ReadId(s) == Uint32LE(SubSeq(wire[s].c2s, 1, 4))

\* Run: m.session.AcceptStream() and binary.Read(stream, LittleEndian, &id)
RunAccept ==
    /\ run.pc = "accept" /\ run.taken < Len(wire)
    /\ run' = [pc |-> "get", taken |-> run.taken + 1, stream |-> run.taken + 1,
               id |-> ReadId(run.taken + 1), p |-> 0]
    /\ UNCHANGED <<supVars, closeVars, cpc, cname, cid, cstream, cerr, hpc, resp,
                   apc, ap, astream, nextId, issued, streams, pend, mLock, wire,
                   tw, rendezvous, closedTwice>>

\* Run: p := m.getStream(id)
RunGet ==
    /\ run.pc = "get" /\ mLock = 0
    /\ LET g == GetStream(run.id)
       IN  /\ run' = [run EXCEPT !.pc = "put", !.p = g.p]
           /\ streams' = g.streams
           /\ pend' = g.pend
    /\ UNCHANGED <<supVars, closeVars, cpc, cname, cid, cstream, cerr, hpc, resp,
                   apc, ap, astream, nextId, issued, mLock, wire, tw, rendezvous,
                   closedTwice>>

\* Run: select { case p.ch <- stream: default: } and go m.timeoutWait(id, p)
RunPut ==
    /\ run.pc = "put"
    /\ pend' = [pend EXCEPT ![run.p].ch = IF @ = 0 THEN run.stream ELSE @]
    /\ tw' = [tw EXCEPT ![run.stream] =
                 [pc |-> "wait", p |-> run.p, id |-> run.id, timeout |-> FALSE]]
    /\ run' = [run EXCEPT !.pc = "accept", !.stream = 0, !.id = U32(0), !.p = 0]
    /\ UNCHANGED <<supVars, closeVars, cpc, cname, cid, cstream, cerr, hpc, resp,
                   apc, ap, astream, nextId, issued, streams, mLock, wire,
                   rendezvous, closedTwice>>

\* timeoutWait: the select on p.doneCh and time.After(5 * time.Second)
TimeoutWaitSelect(s) ==
    /\ s <= Len(tw)
    /\ tw[s].pc = "wait"
    /\ \E branch \in {"done", "timeout"} :
         /\ branch = "done" => pend[tw[s].p].done
         /\ tw' = [tw EXCEPT ![s].pc = "lock", ![s].timeout = (branch = "timeout")]
    /\ UNCHANGED <<supVars, closeVars, cpc, cname, cid, cstream, cerr, hpc, resp,
                   apc, ap, astream, nextId, issued, streams, pend, mLock, wire,
                   run, rendezvous, closedTwice>>

\* timeoutWait: m.Lock(); delete(m.streams, id); without a timeout the
\* deferred m.Unlock() follows at once
TimeoutWaitLock(s) ==
    /\ s <= Len(tw)
    /\ tw[s].pc = "lock" /\ mLock = 0
    /\ streams' = Delete(tw[s].id)
    /\ IF tw[s].timeout
       THEN mLock' = s /\ tw' = [tw EXCEPT ![s].pc = "drain"]
       ELSE mLock' = 0 /\ tw' = [tw EXCEPT ![s].pc = "done"]
    /\ UNCHANGED <<supVars, closeVars, cpc, cname, cid, cstream, cerr, hpc, resp,
                   apc, ap, astream, nextId, issued, pend, wire, run, rendezvous,
                   closedTwice>>

\* timeoutWait closing the stream it was started for, whoever holds it now
TimeoutWaitDrainOwn(s) ==
    /\ s <= Len(tw)
    /\ tw[s].pc = "drain"
    /\ wire' = [wire EXCEPT ![s].closed = @ \cup {"server"}]
    /\ pend' = [pend EXCEPT ![tw[s].p].ch = 0]
    /\ mLock' = 0
    /\ tw' = [tw EXCEPT ![s].pc = "done"]
    /\ UNCHANGED <<supVars, closeVars, cpc, cname, cid, cstream, cerr, hpc, resp,
                   apc, ap, astream, nextId, issued, streams, run, rendezvous,
                   closedTwice>>

\* timeoutWait after a timeout, the mutex held: s := <-p.ch; s.Close(); the
\* deferred m.Unlock()
TimeoutWaitDrain(s) ==
    /\ s <= Len(tw)
    /\ tw[s].pc = "drain"
    /\ pend[tw[s].p].ch # 0
    /\ wire' = [wire EXCEPT ![pend[tw[s].p].ch].closed = @ \cup {"server"}]
    /\ pend' = [pend EXCEPT ![tw[s].p].ch = 0]
    /\ mLock' = 0
    /\ tw' = [tw EXCEPT ![s].pc = "done"]
    /\ UNCHANGED <<supVars, closeVars, cpc, cname, cid, cstream, cerr, hpc, resp,
                   apc, ap, astream, nextId, issued, streams, run, rendezvous,
                   closedTwice>>

\* a NextId call from elsewhere in the plugin's code
DirectNextId ==
    /\ Len(issued) < MaxIds
    /\ nextId' = NextId(nextId)
    /\ issued' = Append(issued, nextId')
    /\ UNCHANGED <<supVars, closeVars, cpc, cname, cid, cstream, cerr, hpc, resp,
                   apc, ap, astream, streams, pend, mLock, wire, run, tw,
                   rendezvous, closedTwice>>

\* the streams a run can open: one per Dispense call
StreamIds == 1..Cardinality(Dispensers)

BrokerNext ==
    \/ DirectNextId
    \/ \E d \in Dispensers :
          \/ DispenseCall(d) \/ ServerLookup(d) \/ ServerNextId(d)
          \/ ServerReturn(d) \/ DispenseReply(d)
          \/ DialOpen(d) \/ DialAck(d) \/ ProxyCall(d)
          \/ AcceptGet(d) \/ AcceptSelect(d) \/ AcceptTimeout(d)
          \/ AcceptAck(d) \/ ServeReply(d)
    \/ RunAccept \/ RunGet \/ RunPut
    \/ \E s \in StreamIds :
          \/ TimeoutWaitSelect(s) \/ TimeoutWaitLock(s) \/ TimeoutWaitDrain(s)

\* the supervisor at rest, and a session ready for Dispense calls
InitBroker ==
    /\ SupInit /\ plugin.out = <<>> /\ ~plugin.exit
    /\ CloseIdle
    /\ BrokerInit

SpecBroker == InitBroker /\ [][BrokerNext]_vars

(* ----------------------- claims about the broker ---------------------- *)

\* the rendezvous that completed for id
RendezvousOf(id) == {i \in 1..Len(rendezvous) : rendezvous[i].id = id}

\* C2: when a Dispense call has returned success on the client, exactly one
\* Accept has returned a stream for the id the server answered, it is the
\* Accept of that call's handler, the stream is the one the call's Dial
\* opened, and the stream starts with the id from the dialing side and the
\* same id back from the accepting side, ahead of any RPC byte.
C2_DispenseRendezvous ==
    \A d \in Dispensers :
        cpc[d] = "ok" =>
            /\ cid[d] = resp[d]
            /\ Cardinality(RendezvousOf(cid[d])) = 1
            /\ \A i \in RendezvousOf(cid[d]) :
                  rendezvous[i].stream = cstream[d] /\ rendezvous[i].by = d
            /\ SubSeq(wire[cstream[d]].c2s, 1, 4) = PutUint32LE(cid[d])
            /\ SubSeq(wire[cstream[d]].s2c, 1, 4) = PutUint32LE(cid[d])
            /\ \A k \in 1..4 : /\ wire[cstream[d]].c2s[k] \notin {RpcRequest[1]}
                               /\ wire[cstream[d]].s2c[k] \notin {RpcResponse[1]}

\* both Dispense calls succeeded and an RPC went over each of the two streams
C2_Witness ==
    \A d \in Dispensers :
        /\ cpc[d] = "ok"
        /\ Len(wire[cstream[d]].c2s) > 4 /\ Len(wire[cstream[d]].s2c) > 4

\* C10: the ids NextId has returned on one broker are pairwise different, none
\* is below 1, and the first call returned 1.
C10_NextIdUnique ==
    /\ \A i, j \in 1..Len(issued) : i # j => issued[i] # issued[j]
    /\ \A i \in 1..Len(issued) : Val(issued[i]) >= 1
    /\ Len(issued) >= 1 => Val(issued[1]) = 1

\* direct NextId calls and the NextId calls of two Dispense handlers have all
\* returned
C10_Witness ==
    /\ Len(issued) >= MaxIds + 1
    /\ \A d \in Dispensers : hpc[d] = "replied"

\* the Dispense call of d has failed for a name the client does not know
FailedLocally(d) == cpc[d] = "failed" /\ cname[d] \notin ClientPlugins

\* C17: a Dispense call for a name outside the client's plugin set fails in
\* its first step with "unknown plugin type", and that step changes nothing
\* else: no control call reaches the server, no id is issued, no stream is
\* opened, and the broker and the other Dispense calls are as before; nor does
\* anything of the kind happen for that call later.
C17_UnknownNameIsLocal ==
    [][ \A d \in Dispensers :
          /\ (cpc[d] = "idle" /\ cpc'[d] # "idle" /\ cname'[d] \notin ClientPlugins)
                => /\ cpc'[d] = "failed" /\ cerr'[d] = ErrUnknownPlugin
                   /\ \A o \in Dispensers \ {d} :
                         cpc'[o] = cpc[o] /\ cerr'[o] = cerr[o] /\ cname'[o] = cname[o]
                   /\ UNCHANGED <<cid, cstream, hpc, resp, apc, ap, astream,
                                  nextId, issued, streams, pend, mLock, wire, run,
                                  tw, rendezvous, closedTwice>>
          /\ FailedLocally(d)
                => /\ FailedLocally(d)' /\ cerr'[d] = ErrUnknownPlugin
                   /\ hpc'[d] = "none" /\ apc'[d] = "none" /\ cstream'[d] = 0 ]_vars

\* one Dispense call failed for an unknown name, and the other one, for a
\* registered name on the same session, succeeded and an RPC went over its
\* stream
C17_Witness ==
    \E d \in Dispensers : \E o \in Dispensers \ {d} :
        /\ FailedLocally(d) /\ hpc[d] = "none"
        /\ cpc[o] = "ok" /\ Len(wire[cstream[o]].s2c) > 4
        /\ Len(issued) = 1 /\ Len(wire) = 1

SpecBrokerLive ==
    /\ InitBroker /\ [][BrokerNext]_vars
    /\ \A d \in Dispensers :
         /\ WF_vars(DispenseCall(d) \/ DispenseReply(d) \/ DialOpen(d)
                       \/ DialAck(d) \/ ProxyCall(d))
         /\ WF_vars(ServerLookup(d) \/ ServerNextId(d) \/ ServerReturn(d))
         /\ WF_vars(AcceptGet(d) \/ AcceptSelect(d) \/ AcceptTimeout(d)
                       \/ AcceptAck(d) \/ ServeReply(d))
    /\ WF_vars(RunAccept \/ RunGet \/ RunPut)
    /\ \A s \in StreamIds :
         WF_vars(TimeoutWaitSelect(s) \/ TimeoutWaitLock(s) \/ TimeoutWaitDrain(s))

\* the timer of the timeoutWait of stream s has fired and no Accept has claimed
\* the stream
Unclaimed(s) ==
    /\ s <= Len(tw) /\ tw[s].pc = "lock" /\ tw[s].timeout
    /\ ~pend[tw[s].p].done

\* the stream is closed on the broker's side and its entry is out of the map
ClosedAndRemoved(s) ==
    /\ s <= Len(wire) /\ s <= Len(tw)
    /\ "server" \in wire[s].closed
    /\ \A i \in DOMAIN streams : streams[i] # tw[s].p

\* C20: a stream that Run took in and that no Accept has claimed when the
\* timer of its timeoutWait fires is closed by timeoutWait in the end and its
\* entry is removed from the map (so that the Dial on it reads no ack).
C20_UnclaimedStreamClosed ==
    \A s \in StreamIds : Unclaimed(s) ~> ClosedAndRemoved(s)

(* ------------------- accepted streams and the reapers ------------------ *)

\* the streams a successful Accept(id) has handed to its caller
Accepted == {rendezvous[i].stream : i \in 1..Len(rendezvous)}

\* C21: a stream that a successful Accept(id) has returned to its caller is
\* never closed by the broker (only timeoutWait closes streams on the
\* accepting side, and only one it received from p.ch), whatever the order of
\* Accept, Run and the 5-second timers
C21_AcceptedNeverReaped ==
    \A s \in Accepted : "server" \notin wire[s].closed

\* an accepted stream whose reaper's timer has fired and which has reached its
\* receive on p.ch with the mutex held
C21_Witness ==
    \E s \in Accepted :
        /\ tw[s].pc = "drain" /\ tw[s].timeout
        /\ "server" \notin wire[s].closed

\* the timeoutWait of stream s sits in its receive from p.ch with the broker's
\* mutex held, the channel is empty, and no sender is left: the entry is out
\* of the map and Run is not about to put a stream in it
Pinned(s) ==
    /\ s <= Len(tw)
    /\ tw[s].pc = "drain" /\ mLock = s
    /\ pend[tw[s].p].ch = 0
    /\ ~(run.pc = "put" /\ run.p = tw[s].p)

\* C22: every timeoutWait task ends and gives the broker's mutex back, so a
\* later getStream can take it: no task is ever left in its receive from p.ch
\* with the mutex held and nothing to receive, also when Accept takes the
\* stream just as the timer fires
C22_ReapersTerminate == \A s \in StreamIds : ~Pinned(s)

(* ---------------------- the rendezvous, both orders -------------------- *)

\* neither 5-second timer of the rendezvous of d has fired: the one in
\* Accept(id) and the one in the timeoutWait of the dialed stream
InWindow(d) ==
    /\ apc[d] \notin {"timeout", ErrAcceptTimeout}
    /\ cstream[d] # 0 => ~tw[cstream[d]].timeout

\* Dial(id) has returned success only after an Accept(id) took this stream and
\* wrote the ack, and the ack on the stream is id
DialAfterAck(d) ==
    cpc[d] = "ok" =>
        /\ \E i \in 1..Len(rendezvous) :
              /\ rendezvous[i].stream = cstream[d]
              /\ rendezvous[i].id = cid[d]
        /\ Uint32LE(SubSeq(wire[cstream[d]].s2c, 1, 4)) = cid[d]
        /\ astream[d] = cstream[d]

\* within the windows neither side of the rendezvous fails
NoFailureInWindow(d) ==
    InWindow(d) =>
        /\ ~(cstream[d] # 0 /\ cpc[d] = "failed")
        /\ apc[d] # "failed"

\* Dial(id) returned the stream and Accept(id) returned it and serves it
Met(d) == cpc[d] = "ok" /\ apc[d] = "serving" /\ astream[d] = cstream[d]

C23_WitnessStreamFirst ==
    \E d \in Dispensers :
        /\ apc[d] = "get" /\ cstream[d] # 0
        /\ tw[cstream[d]].pc = "wait"
        /\ pend[tw[cstream[d]].p].ch = cstream[d]

(* --------------------- what becomes of every stream -------------------- *)

\* Run has accepted stream s from the mux, read its id and offered it to the
\* slot of that id
ReadByRun(s) == s <= Len(tw) /\ tw[s].pc # "none"

\* stream s was returned by an Accept(id) call or closed by the broker
Settled(s) ==
    /\ s <= Len(wire)
    /\ s \in Accepted \/ "server" \in wire[s].closed

\* C28: every stream that Run has accepted and read an id from is in the end
\* returned by an Accept(id) call or closed by the broker
C28_EveryStreamSettled == \A s \in StreamIds : ReadByRun(s) ~> Settled(s)

====
